---- MODULE Spec2Model ----
(***************************************************************************)
(* Model of the price resolution and caching engine of wealthtrack-backend *)
(* (services/prices.ts: PriceService) together with its durable            *)
(* price_cache table.                                                      *)
(* The asset routes (routes/assets.ts) and their assets table are modelled *)
(* next to it, under a specification of their own.                         *)
(*                                                                         *)
(* Symbols are sequences of one-character strings so that toUpperCase and  *)
(* the /^[A-Z]{1,5}$/ shape test are computed, not assumed.                *)
(* Prices are integers counted in 1/10000 dollar (182.50 $ = 1825000).     *)
(* Time is counted in minutes; Date.now() is the variable now.             *)
(***************************************************************************)
EXTENDS Integers, Sequences, FiniteSets, TLC

\* ------------------------------------------------------------------ bounds
MaxTime == 6       \* the clock stops advancing here (TTL + 1 minute)
MaxSymbolLen == 6  \* the longest symbol string classified (one past the shape)

\* --------------------------------------------------------- program constants
CACHE_DURATION_MINUTES == 5
MsPerMinute == 60000

\* a numeric field that is undefined (JavaScript undefined, no number)
Undefined == -1
\* null where a PriceData is expected
Null ==
  [symbol |-> <<>>, price |-> Undefined, change24h |-> Undefined,
   changePercent24h |-> Undefined, lastUpdated |-> Undefined, source |-> "null"]

\* --------------------------------------------------------------- characters
LowerLetters ==
  << "a","b","c","d","e","f","g","h","i","j","k","l","m",
     "n","o","p","q","r","s","t","u","v","w","x","y","z" >>
UpperLetters ==
  << "A","B","C","D","E","F","G","H","I","J","K","L","M",
     "N","O","P","Q","R","S","T","U","V","W","X","Y","Z" >>

\* the upper-case letter of every lower-case letter
LowerToUpper ==
  [c \in {LowerLetters[k] : k \in 1..26} |->
     UpperLetters[CHOOSE k \in 1..26 : LowerLetters[k] = c]]

UpperChar(c) == IF c \in DOMAIN LowerToUpper THEN LowerToUpper[c] ELSE c

\* String.prototype.toUpperCase
RECURSIVE toUpperCase(_)
toUpperCase(s) ==
  IF s = <<>> THEN <<>> ELSE <<UpperChar(Head(s))>> \o toUpperCase(Tail(s))

\* the character class [A-Z]
AZ == {UpperLetters[k] : k \in 1..26}
IsAZ(c) == c \in AZ

\* ------------------------------------------------------------------ tables
CRYPTO_MAPPINGS ==
  ( <<"B","T","C">>         :> "bitcoin"       @@
    <<"E","T","H">>         :> "ethereum"      @@
    <<"B","N","B">>         :> "binancecoin"   @@
    <<"S","O","L">>         :> "solana"        @@
    <<"A","D","A">>         :> "cardano"       @@
    <<"X","R","P">>         :> "ripple"        @@
    <<"D","O","G","E">>     :> "dogecoin"      @@
    <<"D","O","T">>         :> "polkadot"      @@
    <<"M","A","T","I","C">> :> "matic-network" @@
    <<"S","H","I","B">>     :> "shiba-inu"     @@
    <<"A","V","A","X">>     :> "avalanche-2"   @@
    <<"L","I","N","K">>     :> "chainlink"     @@
    <<"U","N","I">>         :> "uniswap"       @@
    <<"A","T","O","M">>     :> "cosmos"        @@
    <<"L","T","C">>         :> "litecoin" )

SUPPORTED_STOCKS ==
  { <<"A","A","P","L">>, <<"G","O","O","G","L">>, <<"M","S","F","T">>,
    <<"T","S","L","A">>, <<"A","M","Z","N">>, <<"M","E","T","A">>,
    <<"N","V","D","A">>, <<"A","M","D">>, <<"N","F","L","X">>,
    <<"D","I","S">>, <<"J","P","M">>, <<"V">>, <<"W","M","T">>,
    <<"P","G">>, <<"M","A">>, <<"P","Y","P","L">>, <<"I","N","T","C">>,
    <<"C","S","C","O">>, <<"P","F","E">>, <<"K","O">> }

\* the static reference table of the fallback, in 1/10000 dollar
mockPrices ==
  ( <<"A","A","P","L">>     :> 1825000 @@
    <<"G","O","O","G","L">> :> 1423000 @@
    <<"M","S","F","T">>     :> 3789000 @@
    <<"T","S","L","A">>     :> 2456000 @@
    <<"A","M","Z","N">>     :> 1552000 @@
    <<"M","E","T","A">>     :> 3624000 @@
    <<"N","V","D","A">>     :> 4873000 @@
    <<"A","M","D">>         :> 1678000 @@
    <<"N","F","L","X">>     :> 4456000 @@
    <<"D","I","S">>         :> 923000 )

\* the default of the fallback: mockPrices[symbol] || 100
DefaultMockPrice == 1000000

\* CRYPTO_MAPPINGS[s] used as a truth value
IsCrypto(symbol) == symbol \in DOMAIN CRYPTO_MAPPINGS

\* isStockSymbol without the exclusion of the crypto tickers
isStockSymbolShapeOnly(symbol) ==
  \/ symbol \in SUPPORTED_STOCKS
  \/ /\ Len(symbol) \in 1..5
     /\ \A i \in 1..Len(symbol) : IsAZ(symbol[i])

isStockSymbol(symbol) ==
  \/ symbol \in SUPPORTED_STOCKS
  \/ /\ Len(symbol) \in 1..5
     /\ \A i \in 1..Len(symbol) : IsAZ(symbol[i])
     /\ ~IsCrypto(symbol)

\* --------------------------------------------------- the symbols requested
BTC     == <<"B","T","C">>
btc     == <<"b","t","c">>
ETH     == <<"E","T","H">>
TSLA    == <<"T","S","L","A">>
KO      == <<"K","O">>
FAKEXYZ == <<"F","A","K","E","X","Y","Z">>

SymbolStrings == {BTC, btc, ETH, TSLA, KO, FAKEXYZ}

\* -------------------------------------------------------- provider answers
CryptoQuote == 30001234      \* a usd value of the crypto provider: 3000.1234 $
StockQuote == 2501550        \* a regularMarketPrice of the equity provider: 250.155 $

CryptoChange == 25           \* its usd_24h_change
\* one payload entry: usd may be missing from it
PayloadEntries == [usd : {Undefined, CryptoQuote}, usd_24h_change : {CryptoChange}]
\* what yahooFinance.quote(symbol) does: it throws, or it yields a quote whose
\* regularMarketPrice is missing, zero or a price
QuoteOutcomes ==
  [throws : {TRUE}, regularMarketPrice : {Undefined}] \cup
  [throws : {FALSE}, regularMarketPrice : {Undefined, 0, StockQuote}]

\* what axios.get does for the ids asked: it throws (network error, non-2xx
\* status), it yields a body that is no object (response.data is null), or it
\* yields a payload holding some of the ids
NoData == [x \in {} |-> Undefined]
CryptoResponses(ids) ==
  [status : {"fail", "malformed"}, data : {NoData}] \cup
  [status : {"ok"}, data : UNION { [D -> PayloadEntries] : D \in SUBSET ids }]

\* ------------------------------------------------------------------ storage
\* the column current_price DECIMAL(18,2): a number is rounded half up to cents
ToDecimal(p) == ((p + 50) \div 100) * 100

\* ---------------------------------------------------------------- results
\* Every method yields the store it leaves (cache, stored), the upstream
\* requests issued so far (reqs), the accesses made to price_cache so far (db),
\* its return value (ret) and whether it ended by throwing (exc).
Ret(st, v) ==
  [cache |-> st.cache, stored |-> st.stored, reqs |-> st.reqs, db |-> st.db,
   ret |-> v, exc |-> FALSE]
Throw(st) ==
  [cache |-> st.cache, stored |-> st.stored, reqs |-> st.reqs, db |-> st.db,
   ret |-> Null, exc |-> TRUE]

\* one call of prisma.priceCache: findUnique or upsert, the symbol it names,
\* the price it carries (none for a read) and whether it went through
Access(st, kind, symbol, price, ok) ==
  [cache |-> st.cache, stored |-> st.stored, reqs |-> st.reqs,
   db |-> Append(st.db, [kind |-> kind, symbol |-> symbol, price |-> price,
                         ok |-> ok])]

PriceData(symbol, price, change24h, changePercent24h, lastUpdated, source) ==
  [symbol |-> symbol, price |-> price, change24h |-> change24h,
   changePercent24h |-> changePercent24h, lastUpdated |-> lastUpdated,
   source |-> source]

\* f with key k set to v (Map.set, and the upsert of one row)
MapSet(f, k, v) == [x \in (DOMAIN f) \cup {k} |-> IF x = k THEN v ELSE f[x]]
EmptyMap == [x \in {} |-> Null]
IsNull(r) == r.source = "null"

\* --------------------------------------------------------- getCachedPrice
\* getCachedPrice without its try/catch: a failing read propagates
getCachedPriceNoCatch(st, env, t, symbol) ==
  LET st1 == Access(st, "findUnique", symbol, Undefined, env.read)
  IN IF ~env.read
    THEN Throw(st1)
    ELSE IF symbol \notin DOMAIN st.cache
      THEN Ret(st1, Null)
      ELSE LET cached == st.cache[symbol]
               cacheAge == (t - cached.updated_at) * MsPerMinute
               maxAge == CACHE_DURATION_MINUTES * 60 * 1000
           IN IF cacheAge > maxAge
                THEN Ret(st1, Null)
                ELSE Ret(st1, PriceData(cached.symbol, cached.current_price,
                                       Undefined, Undefined, cached.updated_at,
                                       IF IsCrypto(symbol) THEN "coingecko"
                                                           ELSE "yahoo"))

getCachedPrice(st, env, t, symbol) ==
  LET st1 == Access(st, "findUnique", symbol, Undefined, env.read)
  IN IF ~env.read
    THEN Ret(st1, Null)                      \* findUnique throws: catch
    ELSE IF symbol \notin DOMAIN st.cache
      THEN Ret(st1, Null)
      ELSE LET cached == st.cache[symbol]
               cacheAge == (t - cached.updated_at) * MsPerMinute
               maxAge == CACHE_DURATION_MINUTES * 60 * 1000
           IN IF cacheAge > maxAge
                THEN Ret(st1, Null)
                ELSE Ret(st1, PriceData(cached.symbol, cached.current_price,
                                       Undefined, Undefined, cached.updated_at,
                                       IF IsCrypto(symbol) THEN "coingecko"
                                                           ELSE "yahoo"))

\* -------------------------------------------------------------- cachePrice
\* prisma.priceCache.upsert({where, create, update}): the arguments are
\* validated first, and a create without the required current_price (an
\* undefined price) is rejected; the row is then created or updated with the
\* price as the column holds it and updated_at = new Date().
\* cachePrice updating the price of an existing row and keeping its updated_at
cachePriceMerged(st, env, t, priceData) ==
  LET sym == priceData.symbol
      row == [symbol |-> sym, current_price |-> ToDecimal(priceData.price),
              updated_at |-> IF sym \in DOMAIN st.cache
                               THEN st.cache[sym].updated_at ELSE t]
      ok == env.write /\ priceData.price # Undefined
      st1 == Access(st, "upsert", sym, priceData.price, ok)
  IN IF ~ok
       THEN Ret(st1, Null)
       ELSE Ret([cache |-> MapSet(st.cache, sym, row),
                 stored |-> MapSet(st.stored, sym, priceData.source),
                 reqs |-> st.reqs, db |-> st1.db], Null)

\* cachePrice whose catch rethrows
cachePriceRethrow(st, env, t, priceData) ==
  LET sym == priceData.symbol
      row == [symbol |-> sym, current_price |-> ToDecimal(priceData.price),
              updated_at |-> t]
      ok == env.write /\ priceData.price # Undefined
      st1 == Access(st, "upsert", sym, priceData.price, ok)
  IN IF ~ok
       THEN Throw(st1)
       ELSE Ret([cache |-> MapSet(st.cache, sym, row),
                 stored |-> MapSet(st.stored, sym, priceData.source),
                 reqs |-> st.reqs, db |-> st1.db], Null)

cachePrice(st, env, t, priceData) ==
  LET sym == priceData.symbol
      row == [symbol |-> sym, current_price |-> ToDecimal(priceData.price),
              updated_at |-> t]
      ok == env.write /\ priceData.price # Undefined
      st1 == Access(st, "upsert", sym, priceData.price, ok)
  IN IF ~ok
       THEN Ret(st1, Null)                    \* upsert throws: catch
       ELSE Ret([cache |-> MapSet(st.cache, sym, row),
                 stored |-> MapSet(st.stored, sym, priceData.source),
                 reqs |-> st.reqs, db |-> st1.db], Null)

\* ----------------------------------------------------- fetchManualStockPrice
\* fetchManualStockPrice without its cachePrice call
fetchManualStockPriceUncached(st, env, t, symbol) ==
  LET price == IF symbol \in DOMAIN mockPrices THEN mockPrices[symbol]
                                               ELSE DefaultMockPrice
  IN Ret(st, PriceData(symbol, price, 0, 0, t, "manual"))

\* fetchManualStockPrice without the default of a symbol the table lacks
fetchManualStockPriceNoDefault(st, env, t, symbol) ==
  LET price == IF symbol \in DOMAIN mockPrices THEN mockPrices[symbol]
                                               ELSE Undefined
      priceData == PriceData(symbol, price, 0, 0, t, "manual")
      w == cachePrice(st, env, t, priceData)
  IN IF w.exc THEN Throw(w) ELSE Ret(w, priceData)

fetchManualStockPrice(st, env, t, symbol) ==
  LET price == IF symbol \in DOMAIN mockPrices THEN mockPrices[symbol]
                                               ELSE DefaultMockPrice
      priceData == PriceData(symbol, price, 0, 0, t, "manual")
      w == cachePrice(st, env, t, priceData)
  IN IF w.exc THEN Throw(w) ELSE Ret(w, priceData)

\* an upstream request, as the provider sees it: the coin ids of the ids
\* parameter (crypto provider) or the symbol quoted (equity provider)
Request(provider, ids, symbols, t, outcome, answer) ==
  [provider |-> provider, ids |-> ids, symbols |-> symbols, t |-> t,
   outcome |-> outcome, answer |-> answer]
Issue(st, req) ==
  [cache |-> st.cache, stored |-> st.stored, reqs |-> Append(st.reqs, req),
   db |-> st.db]

\* ------------------------------------------------------------ fetchStockPrice
\* fetchStockPrice without the test of regularMarketPrice
fetchStockPriceUnchecked(st, env, t, symbol) ==
  LET q == env.quote[symbol]
      st1 == Issue(st, Request("yahoo", <<>>, <<symbol>>, t,
                               IF q.throws THEN "fail" ELSE "ok", q))
  IN IF q.throws
       THEN fetchManualStockPrice(st1, env, t, symbol)
       ELSE LET priceData == PriceData(toUpperCase(symbol), q.regularMarketPrice,
                                       0, 0, t, "yahoo")
                w == cachePrice(st1, env, t, priceData)
            IN IF w.exc
                 THEN fetchManualStockPrice(w, env, t, symbol)
                 ELSE Ret(w, priceData)

fetchStockPrice(st, env, t, symbol) ==
  LET q == env.quote[symbol]
      st1 == Issue(st, Request("yahoo", <<>>, <<symbol>>, t,
                               IF q.throws THEN "fail" ELSE "ok", q))
  IN IF q.throws
       THEN fetchManualStockPrice(st1, env, t, symbol)       \* catch
       ELSE IF q.regularMarketPrice = Undefined \/ q.regularMarketPrice = 0
         THEN Ret(st1, Null)
         ELSE LET priceData == PriceData(toUpperCase(symbol), q.regularMarketPrice,
                                         0, 0, t, "yahoo")
                  w == cachePrice(st1, env, t, priceData)
              IN IF w.exc
                   THEN fetchManualStockPrice(w, env, t, symbol)   \* catch
                   ELSE Ret(w, priceData)

\* ----------------------------------------------------------- fetchCryptoPrice
\* fetchCryptoPrice without its cachePrice call
fetchCryptoPriceUncached(st, env, t, symbol) ==
  IF ~IsCrypto(symbol)
    THEN Ret(st, Null)
    ELSE LET coinId == CRYPTO_MAPPINGS[symbol]
             st1 == Issue(st, Request("coingecko", <<coinId>>, <<>>, t,
                                      env.crypto.status, env.crypto.data))
         IN IF env.crypto.status # "ok"
              THEN Ret(st1, Null)
              ELSE IF coinId \notin DOMAIN env.crypto.data
                THEN Ret(st1, Null)
                ELSE LET data == env.crypto.data[coinId]
                     IN Ret(st1, PriceData(symbol, data.usd, data.usd_24h_change,
                                           data.usd_24h_change, t, "coingecko"))

\* fetchCryptoPrice whose catch falls back to the reference table as the
\* equity fetch does
fetchCryptoPriceFallback(st, env, t, symbol) ==
  IF ~IsCrypto(symbol)
    THEN Ret(st, Null)
    ELSE LET coinId == CRYPTO_MAPPINGS[symbol]
             st1 == Issue(st, Request("coingecko", <<coinId>>, <<>>, t,
                                      env.crypto.status, env.crypto.data))
         IN IF env.crypto.status # "ok"
              THEN fetchManualStockPrice(st1, env, t, symbol)
              ELSE IF coinId \notin DOMAIN env.crypto.data
                THEN Ret(st1, Null)
                ELSE LET data == env.crypto.data[coinId]
                         priceData == PriceData(symbol, data.usd, data.usd_24h_change,
                                                data.usd_24h_change, t, "coingecko")
                         w == cachePrice(st1, env, t, priceData)
                     IN IF w.exc THEN Ret(w, Null)
                                 ELSE Ret(w, priceData)

fetchCryptoPrice(st, env, t, symbol) ==
  IF ~IsCrypto(symbol)
    THEN Ret(st, Null)
    ELSE LET coinId == CRYPTO_MAPPINGS[symbol]
             st1 == Issue(st, Request("coingecko", <<coinId>>, <<>>, t,
                                      env.crypto.status, env.crypto.data))
         IN IF env.crypto.status # "ok"
              THEN Ret(st1, Null)                       \* catch
              ELSE IF coinId \notin DOMAIN env.crypto.data
                THEN Ret(st1, Null)
                ELSE LET data == env.crypto.data[coinId]
                         priceData == PriceData(symbol, data.usd, data.usd_24h_change,
                                                data.usd_24h_change, t, "coingecko")
                         w == cachePrice(st1, env, t, priceData)
                     IN IF w.exc THEN Ret(w, Null)      \* catch
                                 ELSE Ret(w, priceData)

\* ------------------------------------------------------ fetchCryptoPricesBatch
\* symbols.map(s => CRYPTO_MAPPINGS[s.toUpperCase()]).filter(id => id !== undefined)
RECURSIVE CoinIds(_)
CoinIds(symbols) ==
  IF symbols = <<>>
    THEN <<>>
    ELSE LET u == toUpperCase(Head(symbols))
         IN (IF IsCrypto(u) THEN <<CRYPTO_MAPPINGS[u]>> ELSE <<>>)
              \o CoinIds(Tail(symbols))

\* symbols.forEach(s => prices.set(s.toUpperCase(), null))
AllNull(symbols) ==
  [k \in {toUpperCase(symbols[i]) : i \in 1..Len(symbols)} |-> Null]

\* the for loop over the response, from position i on
RECURSIVE BatchLoop(_, _, _, _, _, _)
BatchLoop(st, env, t, symbols, i, prices) ==
  IF i > Len(symbols)
    THEN Ret(st, prices)
    ELSE LET upperSymbol == toUpperCase(symbols[i])
         IN IF IsCrypto(upperSymbol)
                /\ CRYPTO_MAPPINGS[upperSymbol] \in DOMAIN env.crypto.data
              THEN LET data == env.crypto.data[CRYPTO_MAPPINGS[upperSymbol]]
                       priceData == PriceData(upperSymbol, data.usd,
                                              data.usd_24h_change, data.usd_24h_change,
                                              t, "coingecko")
                       w == cachePrice(st, env, t, priceData)
                   IN IF w.exc
                        THEN Throw(w)
                        ELSE BatchLoop(w, env, t, symbols, i + 1,
                                       MapSet(prices, upperSymbol, priceData))
              ELSE BatchLoop(st, env, t, symbols, i + 1,
                             MapSet(prices, upperSymbol, Null))

\* fetchCryptoPricesBatch giving up on the whole batch when the payload lacks
\* one of the ids
fetchCryptoPricesBatchAllOrNothing(st, env, t, symbols) ==
  LET coinIds == CoinIds(symbols)
  IN IF Len(coinIds) = 0
       THEN Ret(st, EmptyMap)
       ELSE LET st1 == Issue(st, Request("coingecko", coinIds, <<>>, t,
                                         env.crypto.status, env.crypto.data))
            IN IF \/ env.crypto.status # "ok"
                  \/ \E i \in 1..Len(coinIds) : coinIds[i] \notin DOMAIN env.crypto.data
                 THEN Ret(st1, AllNull(symbols))
                 ELSE BatchLoop(st1, env, t, symbols, 1, EmptyMap)

fetchCryptoPricesBatch(st, env, t, symbols) ==
  LET coinIds == CoinIds(symbols)
  IN IF Len(coinIds) = 0
       THEN Ret(st, EmptyMap)
       ELSE LET st1 == Issue(st, Request("coingecko", coinIds, <<>>, t,
                                         env.crypto.status, env.crypto.data))
            IN IF env.crypto.status # "ok"
                 THEN Ret(st1, AllNull(symbols))               \* catch
                 ELSE LET w == BatchLoop(st1, env, t, symbols, 1, EmptyMap)
                      IN IF w.exc THEN Ret(w, AllNull(symbols))   \* catch
                                  ELSE w

\* -------------------------------------------------------------------- getPrice
\* getPrice without symbol.toUpperCase()
getPriceAsGiven(st, env, t, symbol) ==
  LET c == getCachedPrice(st, env, t, symbol)
  IN IF c.exc
       THEN c
       ELSE IF ~IsNull(c.ret)
         THEN c
         ELSE IF IsCrypto(symbol)
           THEN fetchCryptoPrice(c, env, t, symbol)
           ELSE IF isStockSymbol(symbol)
             THEN fetchStockPrice(c, env, t, symbol)
             ELSE Ret(c, Null)

getPrice(st, env, t, symbol) ==
  LET upperSymbol == toUpperCase(symbol)
      c == getCachedPrice(st, env, t, upperSymbol)
  IN IF c.exc
       THEN c
       ELSE IF ~IsNull(c.ret)
         THEN c
         ELSE IF IsCrypto(upperSymbol)
           THEN fetchCryptoPrice(c, env, t, upperSymbol)
           ELSE IF isStockSymbol(upperSymbol)
             THEN fetchStockPrice(c, env, t, upperSymbol)
             ELSE Ret(c, Null)

\* ------------------------------------------------------------------- getPrices
\* the for loop over stockSymbols, from position i on
RECURSIVE StockLoop(_, _, _, _, _, _)
StockLoop(st, env, t, stockSymbols, i, prices) ==
  IF i > Len(stockSymbols)
    THEN Ret(st, prices)
    ELSE LET r == getPrice(st, env, t, stockSymbols[i])
         IN IF r.exc
              THEN Throw(r)
              ELSE StockLoop(r, env, t, stockSymbols, i + 1,
                             MapSet(prices, toUpperCase(stockSymbols[i]), r.ret))

IsCryptoInput(s) == IsCrypto(toUpperCase(s))
IsStockInput(s) == isStockSymbol(toUpperCase(s))

\* symbols.filter(s => CRYPTO_MAPPINGS[s.toUpperCase()]) and
\* symbols.filter(s => this.isStockSymbol(s.toUpperCase()))
CryptoPartition(symbols) == SelectSeq(symbols, IsCryptoInput)
StockPartition(symbols) == SelectSeq(symbols, IsStockInput)

\* getPrices resolving every symbol through getPrice, one request per symbol
getPricesOneByOne(st, env, t, symbols) ==
  LET known(s) == IsCryptoInput(s) \/ IsStockInput(s)
  IN StockLoop(st, env, t, SelectSeq(symbols, known), 1, EmptyMap)

getPrices(st, env, t, symbols) ==
  LET cryptoSymbols == CryptoPartition(symbols)
      stockSymbols == StockPartition(symbols)
      b == IF Len(cryptoSymbols) > 0
             THEN fetchCryptoPricesBatch(st, env, t, cryptoSymbols)
             ELSE Ret(st, EmptyMap)
  IN IF b.exc
       THEN Throw(b)
       ELSE StockLoop(b, env, t, stockSymbols, 1, b.ret)

\* ======================================================================
\* The state machine: the durable cache, the clock, and the calls made.
\* ======================================================================
VARIABLES
  cache,     \* price_cache: symbol -> [symbol, current_price, updated_at]
  stored,    \* symbol -> the source tag of the PriceData whose upsert wrote its row
  now,       \* Date.now(), in minutes
  lastReq,   \* symbol -> time of the latest upstream request covering it
             \* (a history of the requests, kept under SpecLog only)
  last,      \* the latest entry-point call: arguments, environment, outcome
  flight,    \* the getPrice calls in flight, each at one of its awaits
             \* (followed step by step under SpecFlight only)
  assets,    \* table assets: id -> row (routes/assets.ts, under SpecAssets only)
  assetSeq,  \* how many rows were ever created; ids are never given twice
  pending,   \* DELETE /:id requests between their findFirst and their delete,
             \* at most one per slot
  res,       \* the latest response an assets route sent
  valuation  \* the latest response of GET /api/prices/portfolio/value
             \* (under SpecPortfolio only)

vars == <<cache, stored, now, lastReq, last, flight, assets, assetSeq, pending, res,
          valuation>>

\* the variables of the price service and of its routes
priceVars == <<cache, stored, now, lastReq, last, flight, valuation>>

\* ----------------------------------------------------------------------
\* routes/assets.ts: values
\* ----------------------------------------------------------------------
\* the authenticated users; req.user?.id of authenticateToken
Users == {"u1", "u2"}
\* req.user?.id is undefined
NoUser == ""
\* the number of rows ever created
MaxAssets == 3
\* the ids a request can name: those of created rows and of rows never made
AssetIds == 1..(MaxAssets + 1)

\* const validTypes = ['STOCK', 'CRYPTO', 'ETF', 'BOND', 'OTHER']
validTypes == {"STOCK", "CRYPTO", "ETF", "BOND", "OTHER"}

\* res.status(status).json({ error | message | asset | assets })
Response(op, userId, id, status, error, body) ==
  [op |-> op, userId |-> userId, id |-> id, status |-> status,
   error |-> error, body |-> body]
NoResponse == Response("none", NoUser, 0, 0, "", <<>>)

\* cost > 0 ? (gainLoss / cost) * 100 : 0, kept as the fraction gainLoss / cost
\* it is computed from
Percent(gainLoss, cost) ==
  IF cost > 0 THEN [num |-> gainLoss, den |-> cost] ELSE [num |-> 0, den |-> 1]

\* res.json({ totalValue, totalCost, totalGainLoss, totalGainLossPercent,
\* assets }) of the portfolio route, with the mapping getPrices gave it
Valuation(userId, status, error, totalValue, totalCost, rows, prices) ==
  [op |-> "portfolio", userId |-> userId, status |-> status, error |-> error,
   totalValue |-> totalValue, totalCost |-> totalCost,
   totalGainLoss |-> totalValue - totalCost,
   totalGainLossPercent |-> Percent(totalValue - totalCost, totalCost),
   assets |-> rows, prices |-> prices]
NoValuation ==
  [Valuation(NoUser, 0, "", 0, 0, <<>>, EmptyMap) EXCEPT !.op = "none"]

\* orderBy: { created_at: 'desc' }; ids are given in creation order
RECURSIVE orderByDesc(_, _)
orderByDesc(table, ids) ==
  IF ids = {} THEN <<>>
  ELSE LET m == CHOOSE x \in ids : \A y \in ids : y <= x
       IN <<table[m]>> \o orderByDesc(table, ids \ {m})

\* prisma.asset.findMany({ where: { user_id: userId }, orderBy })
findMany(table, userId) ==
  orderByDesc(table, {id \in DOMAIN table : table[id].user_id = userId})

\* findFirst whose where clause names the id only
findFirstAnyUser(table, assetId, userId) ==
  IF assetId \in DOMAIN table THEN <<table[assetId]>> ELSE <<>>

\* prisma.asset.findFirst({ where: { id: assetId, user_id: userId } }):
\* the row, or nothing
findFirst(table, assetId, userId) ==
  IF assetId \in DOMAIN table /\ table[assetId].user_id = userId
    THEN <<table[assetId]>> ELSE <<>>

\* the calls that can be in flight at once
Slots == {1, 2}
\* a slot no call occupies
NoCall == [pc |-> "idle", symbol |-> <<>>, priceData |-> Null]

\* the arrays a caller hands to getPrices
SymbolLists ==
  { <<>>, <<BTC>>, <<btc, BTC>>, <<BTC, ETH>>, <<TSLA>>, <<TSLA, KO>>,
    <<FAKEXYZ>>, <<btc, TSLA, FAKEXYZ>> }

CryptoIdsOf(symbols) == {CoinIds(symbols)[i] : i \in 1..Len(CoinIds(symbols))}
StocksOf(symbols) ==
  {toUpperCase(symbols[i]) : i \in {j \in 1..Len(symbols) : IsStockInput(symbols[j])}}

\* what the database does during one call: reads fail or not, writes fail or not
DbModes == [read : BOOLEAN, write : BOOLEAN]
Healthy == {[read |-> TRUE, write |-> TRUE]}

\* what the database and the providers do during one call on these symbols
Envs(symbols, dbs) ==
  [read : {db.read : db \in dbs}, write : {db.write : db \in dbs},
   crypto : IF CryptoIdsOf(symbols) = {}
              THEN {[status |-> "ok", data |-> NoData]}
              ELSE CryptoResponses(CryptoIdsOf(symbols)),
   quote : [StocksOf(symbols) -> QuoteOutcomes]]

Fresh == [cache |-> cache, stored |-> stored, reqs |-> <<>>, db |-> <<>>]

\* the symbols an upstream request covers
IdToSymbol ==
  [id \in {CRYPTO_MAPPINGS[k] : k \in DOMAIN CRYPTO_MAPPINGS} |->
     CHOOSE k \in DOMAIN CRYPTO_MAPPINGS : CRYPTO_MAPPINGS[k] = id]
SymbolOfId(id) == IdToSymbol[id]
CoveredBy(req) ==
  {SymbolOfId(req.ids[i]) : i \in 1..Len(req.ids)} \cup
  {req.symbols[i] : i \in 1..Len(req.symbols)}
Covered(reqs) == UNION {CoveredBy(reqs[i]) : i \in 1..Len(reqs)}

\* the two partitions getPrices makes of its symbols (kept by Partition only)
NoParts == [crypto |-> <<>>, stock |-> <<>>]

\* the outcome of a second call made from the same state under the same
\* behaviour of the database and the providers, for comparison (kept by
\* the comparing steps only)
Twin(r, ret) == [ret |-> ret, reqs |-> r.reqs, cache |-> r.cache, exc |-> r.exc]
NoTwin == [ret |-> EmptyMap, reqs |-> <<>>, cache |-> EmptyMap, exc |-> FALSE]

\* the outcome r of a call becomes the state; prev is the record of the
\* invocation that came right before it in the same step, if any, and twin
\* the outcome of the call it is compared with, if any
RecordTwin(op, args, env, r, ret, track, prev, twin) ==
  /\ cache' = r.cache
  /\ stored' = r.stored
  /\ lastReq' = IF track
                   THEN [k \in DOMAIN lastReq \cup Covered(r.reqs) |->
                           IF k \in Covered(r.reqs) THEN now ELSE lastReq[k]]
                   ELSE lastReq
  /\ last' = [op |-> op, args |-> args, t |-> now, pre |-> cache,
              preSource |-> stored, preReq |-> lastReq,
              read |-> env.read, write |-> env.write,
              ret |-> ret, exc |-> r.exc, reqs |-> r.reqs, db |-> r.db,
              prev |-> prev, parts |-> NoParts, twin |-> twin]
  /\ UNCHANGED <<now, flight, assets, assetSeq, pending, res, valuation>>

RecordAfter(op, args, env, r, ret, track, prev) ==
  RecordTwin(op, args, env, r, ret, track, prev, NoTwin)

Record(op, args, env, r, ret, track) ==
  RecordAfter(op, args, env, r, ret, track, Null)

\* no call is being answered
Idle ==
  [op |-> "none", args |-> <<>>, t |-> 0, pre |-> EmptyMap,
   preSource |-> EmptyMap, preReq |-> [x \in {} |-> 0], read |-> TRUE, write |-> TRUE,
   ret |-> EmptyMap, exc |-> FALSE, reqs |-> <<>>, db |-> <<>>, prev |-> Null,
   parts |-> NoParts, twin |-> NoTwin]

Init ==
  /\ cache = EmptyMap
  /\ stored = EmptyMap
  /\ now = 0
  /\ lastReq = [x \in {} |-> 0]
  /\ last = Idle
  /\ flight = [p \in Slots |-> NoCall]
  /\ assets = [id \in {} |-> 0]
  /\ assetSeq = 0
  /\ pending = {}
  /\ res = NoResponse
  /\ valuation = NoValuation

\* GET /api/prices/:symbol and every other caller of getPrice
GetPriceOf(symbols, dbs, track) ==
  /\ last = Idle
  /\ \E symbol \in symbols : \E env \in Envs(<<symbol>>, dbs) :
       LET r == getPrice(Fresh, env, now, symbol)
       IN Record("getPrice", <<symbol>>, env, r, toUpperCase(symbol) :> r.ret, track)

GetPrice == GetPriceOf(SymbolStrings, DbModes, FALSE)

\* POST /api/prices/batch and every other caller of getPrices
GetPricesOf(lists, dbs, track) ==
  /\ last = Idle
  /\ \E symbols \in lists : \E env \in Envs(symbols, dbs) :
       LET r == getPrices(Fresh, env, now, symbols)
       IN Record("getPrices", symbols, env, r, IF r.exc THEN EmptyMap ELSE r.ret,
                 track)

GetPrices == GetPricesOf(SymbolLists, DbModes, FALSE)

\* time passes: the clock is looked at when a full TTL has gone by, and every
\* minute from then on
Tick ==
  /\ last = Idle
  /\ now < MaxTime
  /\ now' = IF now < CACHE_DURATION_MINUTES THEN CACHE_DURATION_MINUTES ELSE now + 1
  /\ UNCHANGED <<cache, stored, lastReq, last, flight, assets, assetSeq, pending, res, valuation>>

\* the caller has taken the outcome of the call
Return ==
  /\ last # Idle
  /\ last' = Idle
  /\ UNCHANGED <<cache, stored, now, lastReq, flight, assets, assetSeq, pending, res, valuation>>

Next == GetPrice \/ GetPrices \/ Return \/ Tick

Spec == Init /\ [][Next]_vars

\* The same calls with the history of upstream requests kept (lastReq), on a
\* healthy database: what the providers see over a sequence of calls.
LogSymbols == {BTC, TSLA}
LogLists == { <<BTC>>, <<BTC, ETH>>, <<TSLA>> }

GetPriceLog == GetPriceOf(LogSymbols, Healthy, TRUE)
GetPricesLog == GetPricesOf(LogLists, Healthy, TRUE)

NextLog == GetPriceLog \/ GetPricesLog \/ Return \/ Tick

SpecLog == Init /\ [][NextLog]_vars

\* The fallback on its own: fetchManualStockPrice invoked twice in immediate
\* succession for one symbol, whatever the database does at each invocation.
FallbackSymbols == {TSLA, KO, BTC, FAKEXYZ}

Fallback ==
  /\ last = Idle
  /\ \E symbol \in FallbackSymbols :
     \E env1 \in Envs(<<>>, DbModes) : \E env2 \in Envs(<<>>, DbModes) :
       LET r1 == fetchManualStockPrice(Fresh, env1, now, symbol)
           r2 == fetchManualStockPrice(r1, env2, now, symbol)
       IN RecordAfter("fallback", <<symbol>>, env2, r2, symbol :> r2.ret, FALSE,
                      r1.ret)

NextFallback == Fallback \/ Return \/ Tick

SpecFallback == Init /\ [][NextFallback]_vars

\* Classification on its own: the first two lines of getPrices applied to one
\* symbol string, for every string over a few characters.
Alphabet == {"B", "T", "C", "V", "c", "1"}
Strings == UNION {[1..n -> Alphabet] : n \in 0..MaxSymbolLen}

Partition ==
  /\ last = Idle
  /\ \E s \in Strings :
       last' = [Idle EXCEPT !.op = "partition", !.args = <<s>>,
                            !.parts = [crypto |-> CryptoPartition(<<s>>),
                                       stock |-> StockPartition(<<s>>)]]
  /\ UNCHANGED <<cache, stored, now, lastReq, flight, assets, assetSeq, pending, res, valuation>>

NextClassify == Partition \/ Return

SpecClassify == Init /\ [][NextClassify]_vars

\* The cache on its own: cachePrice(r) followed at once by
\* getCachedPrice(r.symbol), on a database that works.
RoundTripRecords ==
  [symbol : {BTC, TSLA}, price : {CryptoQuote, StockQuote, DefaultMockPrice},
   change24h : {0, CryptoChange}, changePercent24h : {0, CryptoChange},
   lastUpdated : {now}, source : {"coingecko", "yahoo", "manual"}]

PutGet ==
  /\ last = Idle
  /\ \E priceData \in RoundTripRecords : \E env \in Envs(<<>>, Healthy) :
       LET w == cachePrice(Fresh, env, now, priceData)
           g == getCachedPrice(w, env, now, priceData.symbol)
       IN RecordAfter("putget", <<priceData.symbol>>, env, g,
                      priceData.symbol :> g.ret, FALSE, priceData)

NextRoundTrip == PutGet \/ Return \/ Tick

SpecRoundTrip == Init /\ [][NextRoundTrip]_vars

\* getPrice followed await by await, several calls at once. A call is at
\*   "await" : the cache had nothing fresh, the provider request is out
\*   "write" : priceData is built, the upsert of cachePrice is out
\*   "done"  : the value to return is settled
\* and the steps between are the ones the code has: nothing takes a call out
\* of "await" but the answer of the provider.
FlightSymbols == {BTC, TSLA}

\* const upperSymbol = symbol.toUpperCase();
\* const cachedPrice = await this.getCachedPrice(upperSymbol);
Start(p) ==
  /\ flight[p].pc = "idle"
  /\ \E symbol \in FlightSymbols : \E env \in Envs(<<symbol>>, DbModes) :
       LET upperSymbol == toUpperCase(symbol)
           c == getCachedPrice(Fresh, env, now, upperSymbol)
       IN flight' = [flight EXCEPT ![p] =
            IF ~IsNull(c.ret)
              THEN [pc |-> "done", symbol |-> upperSymbol, priceData |-> c.ret]
              ELSE [pc |-> "await", symbol |-> upperSymbol, priceData |-> Null]]
  /\ UNCHANGED <<cache, stored, now, lastReq, last, assets, assetSeq, pending, res, valuation>>

\* the provider answers (or the request fails): the record is built, or the
\* fallback is, or there is nothing to return
Answer(p) ==
  /\ flight[p].pc = "await"
  /\ \E env \in Envs(<<flight[p].symbol>>, {[read |-> TRUE, write |-> FALSE]}) :
       LET symbol == flight[p].symbol
           r == IF IsCrypto(symbol) THEN fetchCryptoPrice(Fresh, env, now, symbol)
                                    ELSE fetchStockPrice(Fresh, env, now, symbol)
       IN flight' = [flight EXCEPT ![p] =
            [pc |-> IF IsNull(r.ret) THEN "done" ELSE "write",
             symbol |-> symbol, priceData |-> r.ret]]
  /\ UNCHANGED <<cache, stored, now, lastReq, last, assets, assetSeq, pending, res, valuation>>

\* await this.cachePrice(priceData): the upsert is carried out
Write(p) ==
  /\ flight[p].pc = "write"
  /\ \E env \in Envs(<<>>, DbModes) :
       LET w == cachePrice(Fresh, env, now, flight[p].priceData)
       IN /\ cache' = w.cache
          /\ stored' = w.stored
  /\ flight' = [flight EXCEPT ![p].pc = "done"]
  /\ UNCHANGED <<now, lastReq, last, assets, assetSeq, pending, res, valuation>>

\* return priceData
Finish(p) ==
  /\ flight[p].pc = "done"
  /\ flight' = [flight EXCEPT ![p] = NoCall]
  /\ UNCHANGED <<cache, stored, now, lastReq, last, assets, assetSeq, pending, res, valuation>>

NextFlight ==
  \/ \E p \in Slots : Start(p) \/ Answer(p) \/ Write(p) \/ Finish(p)
  \/ Tick

\* The event loop runs every continuation whose promise has settled and the
\* database answers; callers and providers owe nothing.
SpecFlight ==
  /\ Init
  /\ [][NextFlight]_vars
  /\ \A p \in Slots : WF_vars(Write(p)) /\ WF_vars(Finish(p))

\* ----------------------------------------------------------------------
\* routes/assets.ts: the routes, each behind authenticateToken
\* ----------------------------------------------------------------------
\* router.get('/')
ListAssets(userId) ==
  /\ res' = IF userId = NoUser
              THEN Response("list", userId, 0, 401, "User not authenticated", <<>>)
              ELSE Response("list", userId, 0, 200, "", findMany(assets, userId))
  /\ UNCHANGED <<assets, assetSeq, pending>>
  /\ UNCHANGED priceVars

\* router.get('/:id')
GetAsset(userId, assetId) ==
  /\ res' = IF userId = NoUser
              THEN Response("get", userId, assetId, 401, "User not authenticated", <<>>)
              ELSE LET asset == findFirst(assets, assetId, userId)
                   IN IF asset = <<>>
                        THEN Response("get", userId, assetId, 404, "Asset not found", <<>>)
                        ELSE Response("get", userId, assetId, 200, "", asset)
  /\ UNCHANGED <<assets, assetSeq, pending>>
  /\ UNCHANGED priceVars

\* router.post('/')
CreateAsset(userId, symbol, type, quantity, purchase_price) ==
  LET refuse(status, error) ==
        /\ res' = Response("create", userId, 0, status, error, <<>>)
        /\ UNCHANGED <<assets, assetSeq>>
      id == assetSeq + 1
      asset == [id |-> id, user_id |-> userId, type |-> type,
                symbol |-> toUpperCase(symbol), quantity |-> quantity,
                purchase_price |-> purchase_price]
  IN /\ IF userId = NoUser THEN refuse(401, "User not authenticated")
        ELSE IF symbol = <<>> \/ type = "" THEN refuse(400, "Missing required fields")
        ELSE IF type \notin validTypes THEN refuse(400, "Invalid asset type")
        ELSE IF quantity <= 0 THEN refuse(400, "Quantity must be greater than 0")
        ELSE IF purchase_price < 0 THEN refuse(400, "Purchase price cannot be negative")
        ELSE /\ assetSeq < MaxAssets
             /\ assets' = [x \in DOMAIN assets \cup {id} |->
                             IF x = id THEN asset ELSE assets[x]]
             /\ assetSeq' = id
             /\ res' = Response("create", userId, id, 201, "", <<asset>>)
     /\ UNCHANGED pending
     /\ UNCHANGED priceVars

\* router.delete('/:id'), up to its second await: the row is looked up
DeleteAsset(userId, assetId) ==
  /\ IF userId = NoUser
       THEN /\ res' = Response("delete", userId, assetId, 401, "User not authenticated", <<>>)
            /\ UNCHANGED pending
       ELSE LET existingAsset == findFirst(assets, assetId, userId)
            IN IF existingAsset = <<>>
                 THEN /\ res' = Response("delete", userId, assetId, 404, "Asset not found", <<>>)
                      /\ UNCHANGED pending
                 ELSE /\ \E p \in Slots :
                           /\ \A d \in pending : d.slot # p
                           /\ pending' = pending \cup
                                {[userId |-> userId, id |-> assetId, slot |-> p]}
                      /\ UNCHANGED res
  /\ UNCHANGED <<assets, assetSeq>>
  /\ UNCHANGED priceVars

\* router.delete('/:id'), the rest: prisma.asset.delete({ where: { id } }),
\* which throws when the row is gone
DeleteAssetApply(d) ==
  /\ d \in pending
  /\ pending' = pending \ {d}
  /\ IF d.id \in DOMAIN assets
       THEN /\ assets' = [x \in DOMAIN assets \ {d.id} |-> assets[x]]
            /\ res' = Response("delete", d.userId, d.id, 200, "", <<>>)
       ELSE /\ res' = Response("delete", d.userId, d.id, 500, "Failed to delete asset", <<>>)
            /\ UNCHANGED assets
  /\ UNCHANGED assetSeq
  /\ UNCHANGED priceVars

NextAssets ==
  \/ \E userId \in Users \cup {NoUser} : ListAssets(userId)
  \/ \E userId \in Users \cup {NoUser}, assetId \in AssetIds : GetAsset(userId, assetId)
  \/ \E userId \in Users \cup {NoUser}, symbol \in {<<>>, btc}, type \in {"STOCK", "GOLD"},
        quantity \in {0, 2}, purchase_price \in {-500, 1000000} :
          CreateAsset(userId, symbol, type, quantity, purchase_price)
  \/ \E userId \in Users \cup {NoUser}, assetId \in AssetIds : DeleteAsset(userId, assetId)
  \/ \E userId \in Users, assetId \in AssetIds, p \in Slots :
          DeleteAssetApply([userId |-> userId, id |-> assetId, slot |-> p])

SpecAssets == Init /\ [][NextAssets]_vars

\* ----------------------------------------------------------------------
\* clearExpiredCache, the sweep of price_cache
\* ----------------------------------------------------------------------
\* clearExpiredCache whose deleteMany compares with lte
clearExpiredCacheLte(st, env, t) ==
  LET expirationTime == t * MsPerMinute - CACHE_DURATION_MINUTES * 60 * 1000
      kept == {sym \in DOMAIN st.cache :
                 ~(st.cache[sym].updated_at * MsPerMinute <= expirationTime)}
      st1 == Access(st, "deleteMany", <<>>, Undefined, env.write)
  IN IF ~env.write
       THEN Ret(st1, Null)
       ELSE Ret([cache |-> [sym \in kept |-> st.cache[sym]],
                 stored |-> [sym \in kept |-> st.stored[sym]],
                 reqs |-> st.reqs, db |-> st1.db], Null)

\* prisma.priceCache.deleteMany({ where: { updated_at: { lt: expirationTime } } })
\* with expirationTime = Date.now() - CACHE_DURATION_MINUTES * 60 * 1000
clearExpiredCache(st, env, t) ==
  LET expirationTime == t * MsPerMinute - CACHE_DURATION_MINUTES * 60 * 1000
      kept == {sym \in DOMAIN st.cache :
                 ~(st.cache[sym].updated_at * MsPerMinute < expirationTime)}
      st1 == Access(st, "deleteMany", <<>>, Undefined, env.write)
  IN IF ~env.write
       THEN Ret(st1, Null)                    \* deleteMany throws: catch
       ELSE Ret([cache |-> [sym \in kept |-> st.cache[sym]],
                 stored |-> [sym \in kept |-> st.stored[sym]],
                 reqs |-> st.reqs, db |-> st1.db], Null)

\* the sweep among calls that fill the cache at different times
SweepSymbols == {BTC, TSLA, KO}

GetPriceSweep == GetPriceOf(SweepSymbols, Healthy, FALSE)

ClearExpiredCache ==
  /\ last = Idle
  /\ \E env \in Envs(<<>>, DbModes) :
       LET r == clearExpiredCache(Fresh, env, now)
       IN Record("clearExpiredCache", <<>>, env, r, EmptyMap, FALSE)

NextSweep == GetPriceSweep \/ ClearExpiredCache \/ Return \/ Tick

SpecSweep == Init /\ [][NextSweep]_vars

\* ----------------------------------------------------------------------
\* getPrices on an input and on its de-duplicated, upper-cased form
\* ----------------------------------------------------------------------
\* the upper-cased symbols of a list, each once, in the order they first occur
RECURSIVE Distinct(_, _)
Distinct(symbols, seen) ==
  IF symbols = <<>>
    THEN <<>>
    ELSE LET u == toUpperCase(Head(symbols))
         IN IF u \in seen
              THEN Distinct(Tail(symbols), seen)
              ELSE <<u>> \o Distinct(Tail(symbols), seen \cup {u})

\* inputs that repeat a symbol, in the same or in another letter case
RepeatingLists ==
  { <<btc, BTC>>, <<TSLA, TSLA>>, <<KO, TSLA, KO>>, <<BTC, TSLA>> }

\* getPrices(symbols), and getPrices of the de-duplicated input from the same
\* state under the same behaviour of the database and the providers
Collapse ==
  /\ last = Idle
  /\ \E symbols \in RepeatingLists : \E env \in Envs(symbols, DbModes) :
       LET r == getPrices(Fresh, env, now, symbols)
           d == getPrices(Fresh, env, now, Distinct(symbols, {}))
       IN RecordTwin("collapse", symbols, env, r,
                     IF r.exc THEN EmptyMap ELSE r.ret, FALSE, Null,
                     Twin(d, IF d.exc THEN EmptyMap ELSE d.ret))

NextCollapse == Collapse \/ Return \/ Tick

SpecCollapse == Init /\ [][NextCollapse]_vars

\* ----------------------------------------------------------------------
\* getPrice(s) and getPrices([s]) side by side
\* ----------------------------------------------------------------------
\* getPrice(symbol), and getPrices([symbol]) from the same state under the
\* same behaviour of the database and the providers
Agree ==
  /\ last = Idle
  /\ \E symbol \in SymbolStrings : \E env \in Envs(<<symbol>>, DbModes) :
       LET r == getPrice(Fresh, env, now, symbol)
           m == getPrices(Fresh, env, now, <<symbol>>)
       IN RecordTwin("agree", <<symbol>>, env, r, toUpperCase(symbol) :> r.ret,
                     FALSE, Null, Twin(m, IF m.exc THEN EmptyMap ELSE m.ret))

NextAgree == Agree \/ Return \/ Tick

SpecAgree == Init /\ [][NextAgree]_vars

\* ----------------------------------------------------------------------
\* routes/prices.ts: GET /portfolio/value
\* ----------------------------------------------------------------------
\* the ids of a set of rows in the order the rows were created
RECURSIVE Ascending(_)
Ascending(ids) ==
  IF ids = {} THEN <<>>
  ELSE LET m == CHOOSE x \in ids : \A y \in ids : x <= y
       IN <<m>> \o Ascending(ids \ {m})

\* prisma.asset.findMany({ where: { user_id: userId } }): the ids of the rows
\* of the user; the query names no order and the rows are taken as created
findManyOf(table, userId) ==
  Ascending({id \in DOMAIN table : table[id].user_id = userId})

\* [...new Set(assets.map(a => a.symbol))]: each symbol once, as stored, in
\* the order of first occurrence
RECURSIVE uniqueSymbols(_, _, _)
uniqueSymbols(table, ids, seen) ==
  IF ids = <<>>
    THEN <<>>
    ELSE LET symbol == table[Head(ids)].symbol
         IN IF symbol \in seen
              THEN uniqueSymbols(table, Tail(ids), seen)
              ELSE <<symbol>> \o uniqueSymbols(table, Tail(ids), seen \cup {symbol})

\* the callback of assets.map without the fallback to the purchase price
valueAssetNoFallback(asset, prices) ==
  LET quantity == asset.quantity
      purchasePrice == asset.purchase_price
      cost == quantity * purchasePrice
      priceData == IF asset.symbol \in DOMAIN prices THEN prices[asset.symbol] ELSE Null
      currentPrice == priceData.price
      currentValue == quantity * currentPrice
      gainLoss == currentValue - cost
  IN [id |-> asset.id, symbol |-> asset.symbol, type |-> asset.type,
      quantity |-> quantity, purchasePrice |-> purchasePrice,
      currentPrice |-> currentPrice, cost |-> cost, currentValue |-> currentValue,
      gainLoss |-> gainLoss,
      gainLossPercent |-> Percent(gainLoss, cost),
      lastPriceUpdate |-> IF IsNull(priceData) THEN Undefined ELSE priceData.lastUpdated,
      priceSource |-> IF IsNull(priceData) THEN "manual" ELSE priceData.source]

\* the callback of assets.map: one asset valued at prices.get(asset.symbol),
\* or at its purchase price when that gives no price (priceData?.price ||
\* purchasePrice: no entry, a null entry, a price that is undefined or 0)
valueAsset(asset, prices) ==
  LET quantity == asset.quantity
      purchasePrice == asset.purchase_price
      cost == quantity * purchasePrice
      priceData == IF asset.symbol \in DOMAIN prices THEN prices[asset.symbol] ELSE Null
      currentPrice == IF IsNull(priceData) \/ priceData.price = Undefined
                         \/ priceData.price = 0
                        THEN purchasePrice ELSE priceData.price
      currentValue == quantity * currentPrice
      gainLoss == currentValue - cost
  IN [id |-> asset.id, symbol |-> asset.symbol, type |-> asset.type,
      quantity |-> quantity, purchasePrice |-> purchasePrice,
      currentPrice |-> currentPrice, cost |-> cost, currentValue |-> currentValue,
      gainLoss |-> gainLoss,
      gainLossPercent |-> Percent(gainLoss, cost),
      lastPriceUpdate |-> IF IsNull(priceData) THEN Undefined ELSE priceData.lastUpdated,
      priceSource |-> IF IsNull(priceData) THEN "manual" ELSE priceData.source]

\* totalValue += currentValue; totalCost += cost, over the rows
RECURSIVE Sum(_, _)
Sum(rows, field) ==
  IF rows = <<>> THEN 0 ELSE Head(rows)[field] + Sum(Tail(rows), field)

\* router.get('/portfolio/value')
PortfolioValue(userId) ==
  /\ IF userId = NoUser
       THEN /\ valuation' = Valuation(userId, 401, "User not authenticated", 0, 0,
                                      <<>>, EmptyMap)
            /\ UNCHANGED <<cache, stored>>
       ELSE LET ids == findManyOf(assets, userId)
            IN IF Len(ids) = 0
                THEN /\ valuation' = Valuation(userId, 200, "", 0, 0, <<>>, EmptyMap)
                     /\ UNCHANGED <<cache, stored>>
                ELSE LET symbols == uniqueSymbols(assets, ids, {})
                     IN \E env \in Envs(symbols, Healthy) :
                          LET r == getPrices(Fresh, env, now, symbols)
                              rows == [i \in 1..Len(ids) |->
                                         valueAsset(assets[ids[i]], r.ret)]
                          IN /\ cache' = r.cache
                             /\ stored' = r.stored
                             /\ valuation' =
                                  IF r.exc
                                    THEN Valuation(userId, 500,
                                           "Failed to calculate portfolio value",
                                           0, 0, <<>>, EmptyMap)
                                    ELSE Valuation(userId, 200, "",
                                           Sum(rows, "currentValue"),
                                           Sum(rows, "cost"), rows, r.ret)
  /\ UNCHANGED <<now, lastReq, last, flight, assets, assetSeq, pending, res>>

\* the assets created: one user holds any of three symbols, the other TSLA
Holdings ==
  ({"u1"} \X {btc, TSLA, FAKEXYZ}) \cup ({"u2"} \X {TSLA})

NextPortfolio ==
  \/ \E h \in Holdings : CreateAsset(h[1], h[2], "STOCK", 2, 1000000)
  \/ \E userId \in Users \cup {NoUser} : PortfolioValue(userId)

SpecPortfolio == Init /\ [][NextPortfolio]_vars

\* ----------------------------------------------------------------------
\* updateAllAssetPrices (POST /update-all and the scheduled refresh)
\* ----------------------------------------------------------------------
\* prisma.asset.findMany({ select: { symbol: true }, distinct: ['symbol'] }):
\* each stored symbol once, the rows taken as created
distinctSymbols(table) == uniqueSymbols(table, Ascending(DOMAIN table), {})

\* updateAllAssetPrices without its try/catch
updateAllAssetPricesNoCatch(st, env, t, table, readable) ==
  LET st1 == Access(st, "asset.findMany", <<>>, Undefined, readable)
  IN IF ~readable
       THEN Throw(st1)
       ELSE LET r == getPrices(st1, env, t, distinctSymbols(table))
            IN IF r.exc THEN Throw(r) ELSE Ret(r, Null)

\* readable: whether the query on the assets table goes through
updateAllAssetPrices(st, env, t, table, readable) ==
  LET st1 == Access(st, "asset.findMany", <<>>, Undefined, readable)
  IN IF ~readable
       THEN Ret(st1, Null)                          \* findMany throws: catch
       ELSE LET r == getPrices(st1, env, t, distinctSymbols(table))
            IN Ret(r, Null)                         \* a throw is caught too

\* await priceService.updateAllAssetPrices()
UpdateAll ==
  /\ last = Idle
  /\ \E readable \in BOOLEAN :
     \E env \in Envs(distinctSymbols(assets), DbModes) :
       LET r == updateAllAssetPrices(Fresh, env, now, assets, readable)
       IN Record("updateAllAssetPrices", distinctSymbols(assets), env, r,
                 EmptyMap, FALSE)

NextRefresh ==
  \/ \E symbol \in {btc, TSLA, FAKEXYZ} : CreateAsset("u1", symbol, "STOCK", 2, 1000000)
  \/ UpdateAll
  \/ Return
  \/ Tick

SpecRefresh == Init /\ [][NextRefresh]_vars

\* ======================================================================
\* Properties
\* ======================================================================
Called == last.op \in {"getPrice", "getPrices"}

\* the symbols the latest call was asked for, upper-cased
Requested == {toUpperCase(last.args[i]) : i \in 1..Len(last.args)}

Classified(sym) == IsCrypto(sym) \/ isStockSymbol(sym)

\* the entry the latest call returned for sym is a concrete record
HasRecord(sym) == sym \in DOMAIN last.ret /\ last.ret[sym].source # "null"

\* the row of sym as the latest call found it
HadRow(sym) == sym \in DOMAIN last.pre
AgeBefore(sym) == last.t - last.pre[sym].updated_at
HadFreshRow(sym) == HadRow(sym) /\ AgeBefore(sym) <= CACHE_DURATION_MINUTES
HadExpiredRow(sym) == HadRow(sym) /\ AgeBefore(sym) > CACHE_DURATION_MINUTES

\* the upstream requests of the latest call that cover sym
RequestsFor(sym) == {i \in 1..Len(last.reqs) : sym \in CoveredBy(last.reqs[i])}

\* C1: the key set of the mapping getPrices returns is exactly the upper-cased,
\* de-duplicated list of symbols it was given, Unsupported symbols included.
C1_KeySetIsInput ==
  (last.op = "getPrices" /\ ~last.exc) => DOMAIN last.ret = Requested

\* C2: every requested symbol classified Crypto or Equity ends with a concrete
\* record, whatever the provider did.
C2_ClassifiedNeverAbsent ==
  (Called /\ ~last.exc) =>
    \A sym \in Requested : Classified(sym) => HasRecord(sym)

\* C3: a call for the single symbol sym that finds a non-expired row for sym in
\* a readable cache issues no upstream request for sym and returns the cached
\* price, on the batch path as well as on the single-symbol path.
C3_FreshRowShortCircuits ==
  (Called /\ Len(last.args) = 1 /\ last.read) =>
    \A sym \in Requested :
      HadFreshRow(sym) =>
        /\ RequestsFor(sym) = {}
        /\ HasRecord(sym)
        /\ last.ret[sym].price = last.pre[sym].current_price

\* C4: a row older than the TTL is never returned; the call returns a record
\* obtained at the time of the call (freshly fetched or fallback) instead.
C4_ExpiredRowReplaced ==
  Called =>
    \A sym \in Requested :
      HadExpiredRow(sym) =>
        /\ HasRecord(sym)
        /\ last.ret[sym].lastUpdated = last.t

\* the positions of the Crypto symbols among the arguments of the latest call,
\* and of the requests it sent to the crypto provider
CryptoArgs == {i \in 1..Len(last.args) : IsCryptoInput(last.args[i])}
CryptoRequests == {i \in 1..Len(last.reqs) : last.reqs[i].provider = "coingecko"}
IdsOf(req) == {req.ids[k] : k \in 1..Len(req.ids)}

\* the cache answered none of the Crypto symbols of the latest call
NoCryptoCacheHit ==
  \A i \in CryptoArgs : ~(last.read /\ HadFreshRow(toUpperCase(last.args[i])))

\* the static reference value of an equity symbol
RefPrice(sym) == IF sym \in DOMAIN mockPrices THEN mockPrices[sym] ELSE 1000000

\* the price a request obtained for sym: the usd of its payload entry, the
\* quoted market price, or the reference value when the quote call failed
Obtained(req, sym) ==
  IF req.provider = "coingecko"
    THEN IF req.outcome = "ok" /\ CRYPTO_MAPPINGS[sym] \in DOMAIN req.answer
           THEN req.answer[CRYPTO_MAPPINGS[sym]].usd
           ELSE Undefined
    ELSE IF req.outcome = "fail"
           THEN RefPrice(sym)
           ELSE IF req.answer.regularMarketPrice = 0
                  THEN Undefined
                  ELSE req.answer.regularMarketPrice

\* C5: over any sequence of getPrice/getPrices calls, a symbol is covered by at
\* most one upstream request within any TTL window: a call sends at most one
\* request covering it, and none while the previous one is less than a TTL old.
C5_OneRequestPerWindow ==
  Called =>
    \A sym \in Covered(last.reqs) :
      /\ Cardinality(RequestsFor(sym)) = 1
      /\ sym \in DOMAIN last.preReq =>
           last.t - last.preReq[sym] >= CACHE_DURATION_MINUTES

\* C6: a getPrices call with N >= 1 Crypto symbols and no cache hit sends
\* exactly one request to the crypto provider, carrying the ids of all N
\* symbols; a call with no Crypto symbol sends none.
C6_OneBatchRequest ==
  last.op = "getPrices" =>
    IF CryptoArgs = {}
      THEN CryptoRequests = {}
      ELSE NoCryptoCacheHit =>
             /\ Cardinality(CryptoRequests) = 1
             /\ \A i \in CryptoRequests :
                  /\ Len(last.reqs[i].ids) = Cardinality(CryptoArgs)
                  /\ IdsOf(last.reqs[i]) =
                       {CRYPTO_MAPPINGS[toUpperCase(last.args[j])] : j \in CryptoArgs}

\* two Crypto symbols, an empty cache, one request with both ids
C6_Witness ==
  /\ last.op = "getPrices"
  /\ last.args = <<BTC, ETH>>
  /\ DOMAIN last.pre = {}
  /\ Len(last.reqs) = 1
  /\ last.reqs[1].ids = <<"bitcoin", "ethereum">>

\* the record returned for sym came out of the cache
ServedFromCache(sym) == HadRow(sym) /\ HasRecord(sym) /\ RequestsFor(sym) = {}

\* C7: the source tag of a record served from the cache is the tag of the
\* record that was written there; a cached fallback record is still 'manual'.
C7_SourceIsStoredProvenance ==
  Called =>
    \A sym \in Requested :
      ServedFromCache(sym) => last.ret[sym].source = last.preSource[sym]

\* the quote call of the latest call for sym threw
FailedQuote(sym) ==
  \E i \in RequestsFor(sym) :
    last.reqs[i].provider = "yahoo" /\ last.reqs[i].outcome = "fail"

\* C8: when the equity provider call for sym fails, the call returns a 'manual'
\* record priced at the static reference value of sym (100 by default) and,
\* the cache being writable, writes it to the cache; a later call that reads
\* this row within the TTL returns that price and sends no request.
C8_FallbackCached ==
  Called =>
    \A sym \in Requested :
      /\ FailedQuote(sym) =>
           /\ HasRecord(sym)
           /\ last.ret[sym].source = "manual"
           /\ last.ret[sym].price = RefPrice(sym)
           /\ last.write =>
                /\ sym \in DOMAIN cache
                /\ cache[sym].current_price = RefPrice(sym)
                /\ cache[sym].updated_at = last.t
                /\ stored[sym] = "manual"
      /\ (last.read /\ HadFreshRow(sym) /\ last.preSource[sym] = "manual") =>
           /\ RequestsFor(sym) = {}
           /\ HasRecord(sym)
           /\ last.ret[sym].price = RefPrice(sym)
           /\ cache[sym] = last.pre[sym]

\* a fallback row of KO (not in the table: 100 $), read a full TTL later
C8_Witness ==
  /\ last.op = "getPrice"
  /\ last.args = <<KO>>
  /\ last.read
  /\ HadRow(KO)
  /\ last.preSource[KO] = "manual"
  /\ AgeBefore(KO) = CACHE_DURATION_MINUTES
  /\ last.reqs = <<>>
  /\ last.ret[KO].price = 1000000

\* C9: getPrice and getPrices complete normally whatever the providers and the
\* cache do: no call ends by throwing.
C9_NoExceptionSurfaces == Called => ~last.exc

\* both providers fail while the cache can be neither read nor written
C9_Witness ==
  /\ last.op = "getPrices"
  /\ ~last.read
  /\ ~last.write
  /\ \E i \in 1..Len(last.reqs) :
       last.reqs[i].provider = "coingecko" /\ last.reqs[i].outcome # "ok"
  /\ \E i \in 1..Len(last.reqs) :
       last.reqs[i].provider = "yahoo" /\ last.reqs[i].outcome = "fail"
  /\ ~last.exc

\* C10: when the cache cannot be read, getPrice does what it does on a miss: it
\* sends the provider request of a classified symbol (none for an unsupported
\* one); when the cache cannot be written, the call does not throw, leaves the
\* cache as it was and still returns the record it obtained.
C10_CacheFailuresTolerated ==
  Called =>
    \A sym \in Requested :
      /\ (last.op = "getPrice" /\ ~last.read) =>
           IF Classified(sym)
             THEN Cardinality(RequestsFor(sym)) = 1
             ELSE last.reqs = <<>> /\ ~HasRecord(sym)
      /\ (~last.read \/ ~last.write) =>
           /\ ~last.exc
           /\ \A i \in RequestsFor(sym) :
                Obtained(last.reqs[i], sym) # Undefined =>
                  /\ HasRecord(sym)
                  /\ last.ret[sym].price = Obtained(last.reqs[i], sym)
      /\ ~last.write => cache = last.pre

\* a fresh row of BTC that cannot be read, and a write that fails
C10_Witness ==
  /\ last.op = "getPrice"
  /\ last.args = <<BTC>>
  /\ ~last.read
  /\ ~last.write
  /\ HadFreshRow(BTC)
  /\ Len(last.reqs) = 1
  /\ last.ret[BTC].price = CryptoQuote
  /\ cache = last.pre

\* the accesses the latest call made to price_cache that name sym
AccessesFor(sym) == {i \in 1..Len(last.db) : last.db[i].symbol = sym}

\* C12: for a symbol classified Unsupported the call yields absent and makes no
\* cache read, no cache write and no provider request for it.
C12_UnsupportedUntouched ==
  Called =>
    \A sym \in Requested :
      ~Classified(sym) =>
        /\ ~HasRecord(sym)
        /\ AccessesFor(sym) = {}
        /\ RequestsFor(sym) = {}

\* C13: the fallback succeeds for every symbol and its price is the same at
\* two invocations in a row: the table value of the symbol, 100 $ for a symbol
\* not in the table, tagged 'manual' and dated at the invocation.
C13_FallbackDeterministic ==
  last.op = "fallback" =>
    \A sym \in Requested :
      /\ ~last.exc
      /\ HasRecord(sym)
      /\ last.prev.source = "manual"
      /\ last.ret[sym].source = "manual"
      /\ last.ret[sym].price = last.prev.price
      /\ last.ret[sym].price = RefPrice(sym)
      /\ last.ret[sym].lastUpdated = last.t

\* KO twice, the second time over the row the first one wrote, with a
\* database that then refuses the write
C13_Witness ==
  /\ last.op = "fallback"
  /\ last.args = <<KO>>
  /\ ~last.write
  /\ KO \in DOMAIN cache
  /\ last.prev.price = 1000000
  /\ last.ret[KO].price = 1000000

NewlyObtained(sym) == HasRecord(sym) /\ RequestsFor(sym) # {}

\* C17: a record newly obtained from a provider or from the fallback is
\* written to the cache before the call returns it: the call has made an
\* upsert of sym with the price it returns, and when the database took that
\* write the row holds the record at the time of the call.
C17_WrittenBeforeReturned ==
  Called =>
    \A sym \in Requested :
      NewlyObtained(sym) =>
        LET price == last.ret[sym].price
            taken == last.write /\ price # Undefined
        IN /\ \E i \in AccessesFor(sym) :
                /\ last.db[i].kind = "upsert"
                /\ last.db[i].price = price
                /\ last.db[i].ok = taken
           /\ taken =>
                /\ sym \in DOMAIN cache
                /\ cache[sym].current_price = ToDecimal(price)
                /\ cache[sym].updated_at = last.t

\* a live quote of TSLA, returned and found in the table
C17_Witness ==
  /\ last.op = "getPrice"
  /\ last.args = <<TSLA>>
  /\ last.write
  /\ last.ret[TSLA].source = "yahoo"
  /\ last.ret[TSLA].price = StockQuote
  /\ Len(last.db) = 2
  /\ last.db[2].kind = "upsert"
  /\ cache[TSLA].current_price = 2501600

\* C18: in a crypto batch fetch a failed request leaves every symbol of the
\* batch absent; a response that holds only some of the ids leaves exactly the
\* symbols it lacks absent and gives a 'coingecko' record to each of the others.
C18_BatchFailureAndPartial ==
  last.op = "getPrices" =>
    \A i \in CryptoRequests : \A j \in CryptoArgs :
      LET sym == toUpperCase(last.args[j])
          id == CRYPTO_MAPPINGS[sym]
          req == last.reqs[i]
      IN /\ sym \in DOMAIN last.ret
         /\ req.outcome # "ok" => ~HasRecord(sym)
         /\ req.outcome = "ok" =>
              /\ HasRecord(sym) <=> id \in DOMAIN req.answer
              /\ HasRecord(sym) =>
                   /\ last.ret[sym].source = "coingecko"
                   /\ last.ret[sym].price = req.answer[id].usd

\* a payload with bitcoin and without ethereum
C18_Witness ==
  /\ last.op = "getPrices"
  /\ last.args = <<BTC, ETH>>
  /\ Len(last.reqs) = 1
  /\ last.reqs[1].outcome = "ok"
  /\ DOMAIN last.reqs[1].answer = {"bitcoin"}
  /\ last.ret[BTC].source = "coingecko"
  /\ last.ret[BTC].price = CryptoQuote
  /\ last.ret[ETH].source = "null"

\* the quote the latest call got for sym has no price or a zero price
EmptyQuote(sym) ==
  \E i \in RequestsFor(sym) :
    /\ last.reqs[i].provider = "yahoo"
    /\ last.reqs[i].outcome = "ok"
    /\ last.reqs[i].answer.regularMarketPrice \in {Undefined, 0}

\* C19: a missing or zero regularMarketPrice is a failure of the equity fetch:
\* no 'yahoo' record with a price of 0 or none is ever returned or cached, and
\* such a quote gives no record and no cache write.
C19_NoZeroQuote ==
  /\ \A sym \in DOMAIN cache : cache[sym].current_price > 0
  /\ Called =>
       \A sym \in Requested :
         /\ (HasRecord(sym) /\ last.ret[sym].source = "yahoo") =>
              last.ret[sym].price > 0
         /\ EmptyQuote(sym) =>
              /\ ~HasRecord(sym)
              /\ \A i \in AccessesFor(sym) : last.db[i].kind # "upsert"

\* a quote of KO with a zero price
C19_Witness ==
  /\ last.op = "getPrice"
  /\ last.args = <<KO>>
  /\ Len(last.reqs) = 1
  /\ last.reqs[1].outcome = "ok"
  /\ last.reqs[1].answer.regularMarketPrice = 0
  /\ last.ret[KO].source = "null"
  /\ KO \notin DOMAIN cache

\* C20: cachePrice(r) followed by getCachedPrice(r.symbol) within the TTL gives
\* back r: the same price, change24h, changePercent24h, observation time and
\* source.
C20_RoundTripUnchanged ==
  last.op = "putget" =>
    \A sym \in Requested :
      /\ HasRecord(sym)
      /\ last.ret[sym].price = last.prev.price
      /\ last.ret[sym].change24h = last.prev.change24h
      /\ last.ret[sym].changePercent24h = last.prev.changePercent24h
      /\ last.ret[sym].lastUpdated = last.prev.lastUpdated
      /\ last.ret[sym].source = last.prev.source

\* C11: every call eventually returns, whatever the provider does: a call in
\* flight is always followed by its return.
C11_EveryCallReturns ==
  \A p \in Slots : (flight[p].pc # "idle") ~> (flight[p].pc = "idle")

\* the row cachePrice writes for a record at the present time
RowOf(priceData) ==
  [symbol |-> priceData.symbol, current_price |-> ToDecimal(priceData.price),
   updated_at |-> now]

\* C15: with several calls in flight, every change of price_cache is the whole
\* row of one pending write (no mixture of two writes, one row per symbol),
\* and it changes the row of no other symbol.
C15_WritesAreWhole ==
  [][ cache' # cache =>
        \E p \in Slots :
          /\ flight[p].pc = "write"
          /\ DOMAIN cache' = DOMAIN cache \cup {flight[p].symbol}
          /\ cache'[flight[p].symbol] = RowOf(flight[p].priceData)
          /\ \A sym \in DOMAIN cache :
               sym # flight[p].symbol => cache'[sym] = cache[sym] ]_vars

\* two calls for TSLA in flight: the quote of one is in the table, the
\* fallback record of the other is about to be written over it
C15_Witness ==
  /\ flight[1].pc = "done"
  /\ flight[1].priceData.source = "yahoo"
  /\ flight[1].priceData.price = StockQuote
  /\ flight[1].symbol = TSLA
  /\ flight[2].pc = "done"
  /\ flight[2].symbol = TSLA
  /\ flight[2].priceData.source = "manual"
  /\ TSLA \in DOMAIN cache
  /\ cache[TSLA] = RowOf(flight[2].priceData)
  /\ cache[TSLA].current_price # ToDecimal(flight[1].priceData.price)

\* C16: assets are isolated per user. Whatever an assets route answers to a
\* request authenticated as user u holds rows of u only; a row that leaves the
\* store belonged to the user of the request and no other row changes; and a
\* get or delete that names a row of another user answers 404 'Asset not
\* found' and leaves the store as it was.
C16_AssetsIsolated ==
  [][ (res' # res \/ assets' # assets) =>
        /\ \A i \in 1..Len(res'.body) : res'.body[i].user_id = res'.userId
        /\ \A id \in DOMAIN assets \ DOMAIN assets' :
             assets[id].user_id = res'.userId /\ res'.op = "delete"
        /\ \A id \in DOMAIN assets \cap DOMAIN assets' : assets'[id] = assets[id]
        /\ \A id \in DOMAIN assets' \ DOMAIN assets :
             assets'[id].user_id = res'.userId /\ res'.op = "create"
        /\ ( /\ res'.op \in {"get", "delete"}
             /\ res'.id \in DOMAIN assets
             /\ assets[res'.id].user_id # res'.userId )
           => /\ res'.status = IF res'.userId = NoUser THEN 401 ELSE 404
              /\ res'.userId # NoUser => res'.error = "Asset not found"
              /\ res'.body = <<>>
              /\ assets' = assets ]_vars

\* u2 asked to delete a row of u1: 404 'Asset not found', and the row is there
C16_Witness ==
  /\ res.op = "delete"
  /\ res.userId = "u2"
  /\ res.status = 404
  /\ res.error = "Asset not found"
  /\ res.id \in DOMAIN assets
  /\ assets[res.id].user_id = "u1"
  /\ \E id \in DOMAIN assets : assets[id].user_id = "u2"

\* what getCachedPrice does with the row of sym at time t on a database that
\* answers: it returns it, or treats it as expired
Readable(table, t, sym) ==
  ~IsNull(getCachedPrice([cache |-> table, stored |-> EmptyMap, reqs |-> <<>>,
                          db |-> <<>>],
                         [read |-> TRUE, write |-> TRUE], t, sym).ret)

\* C21: a sweep whose deleteMany goes through removes exactly the rows that
\* getCachedPrice treats as expired at that time: none of them remains, and
\* every row getCachedPrice still returns is left as it was. A sweep whose
\* deleteMany fails changes nothing and does not throw.
C21_SweepRemovesExpiredOnly ==
  last.op = "clearExpiredCache" =>
    /\ ~last.exc
    /\ last.write =>
         /\ \A sym \in DOMAIN cache : Readable(cache, last.t, sym)
         /\ \A sym \in DOMAIN last.pre :
              Readable(last.pre, last.t, sym) =>
                sym \in DOMAIN cache /\ cache[sym] = last.pre[sym]
         /\ DOMAIN cache \subseteq DOMAIN last.pre
    /\ ~last.write => cache = last.pre

\* a sweep that removed the expired row of BTC and kept the younger row of TSLA
C21_Witness ==
  /\ last.op = "clearExpiredCache"
  /\ last.write
  /\ BTC \in DOMAIN last.pre
  /\ last.t - last.pre[BTC].updated_at > CACHE_DURATION_MINUTES
  /\ BTC \notin DOMAIN cache
  /\ TSLA \in DOMAIN cache
  /\ cache[TSLA] = last.pre[TSLA]

\* C22: price_cache holds at most one row per symbol and every key is the
\* upper-case form of its symbol; every read and write a call makes names the
\* upper-case form of a symbol it was asked for, so that requests that differ
\* in letter case only meet in the same row.
C22_OneUpperCaseRowPerSymbol ==
  /\ \A k \in DOMAIN cache : cache[k].symbol = k /\ toUpperCase(k) = k
  /\ \A k1 \in DOMAIN cache : \A k2 \in DOMAIN cache :
       toUpperCase(k1) = toUpperCase(k2) => k1 = k2
  /\ Called =>
       \A i \in 1..Len(last.db) :
         /\ last.db[i].symbol = toUpperCase(last.db[i].symbol)
         /\ last.db[i].symbol \in Requested

\* btc and BTC in one call: two upserts, both of the row BTC
C22_Witness ==
  /\ last.op = "getPrices"
  /\ last.args = <<btc, BTC>>
  /\ last.write
  /\ Len(last.db) = 2
  /\ last.db[1].symbol = BTC /\ last.db[1].ok
  /\ last.db[2].symbol = BTC /\ last.db[2].ok
  /\ DOMAIN cache = {BTC}

\* C23: repeated and case-variant occurrences of a symbol in a getPrices input
\* are collapsed before any work is done: the call sends the same upstream
\* requests and returns the same mapping, one entry per distinct symbol, as
\* the call on the de-duplicated, upper-cased input does.
C23_DuplicatesCollapsed ==
  last.op = "collapse" =>
    /\ last.reqs = last.twin.reqs
    /\ last.ret = last.twin.ret
    /\ DOMAIN last.ret = Requested

\* C24: every record a call returns and every row of the cache has a defined,
\* non-negative price: a payload entry without a usable price gives no record.
C24_PriceDefined ==
  /\ \A sym \in DOMAIN cache :
       cache[sym].current_price # Undefined /\ cache[sym].current_price >= 0
  /\ Called =>
       \A sym \in Requested :
         HasRecord(sym) =>
           last.ret[sym].price # Undefined /\ last.ret[sym].price >= 0

\* the request the latest call sent to the crypto provider failed
FailedCryptoRequest ==
  \E i \in CryptoRequests : last.reqs[i].outcome # "ok"

\* C27: a failed crypto request, single or batch, leaves the cache as it was:
\* the call makes no upsert of a Crypto symbol, no row of a Crypto symbol is
\* created, changed or removed, and a getPrice call changes no row at all.
C27_FailedCryptoLeavesCache ==
  (Called /\ FailedCryptoRequest) =>
    /\ \A i \in 1..Len(last.db) :
         IsCrypto(last.db[i].symbol) => last.db[i].kind # "upsert"
    /\ \A sym \in DOMAIN cache \cup DOMAIN last.pre :
         IsCrypto(sym) =>
           /\ sym \in DOMAIN cache
           /\ sym \in DOMAIN last.pre
           /\ cache[sym] = last.pre[sym]
    /\ last.op = "getPrice" => cache = last.pre
    /\ \A sym \in Requested : IsCrypto(sym) => ~HasRecord(sym)

\* a failed batch for BTC and ETH over an expired row of BTC, which stays
C27_Witness ==
  /\ last.op = "getPrices"
  /\ last.args = <<BTC, ETH>>
  /\ last.write
  /\ Len(last.reqs) = 1
  /\ last.reqs[1].outcome = "fail"
  /\ HadExpiredRow(BTC)
  /\ cache = last.pre

\* C28: a cachePrice that goes through makes the row fresh whether it inserts
\* or overwrites: the row carries the new price and the time of the write, a
\* getCachedPrice that follows at once returns the new price even when the row
\* it replaced had expired, and the row is still returned a full TTL after the
\* write and no longer after that.
C28_WriteRefreshesRow ==
  last.op = "putget" =>
    \A sym \in Requested :
      /\ HasRecord(sym)
      /\ last.ret[sym].price = ToDecimal(last.prev.price)
      /\ cache[sym].current_price = ToDecimal(last.prev.price)
      /\ cache[sym].updated_at = last.t
      /\ \A d \in 0..CACHE_DURATION_MINUTES : Readable(cache, last.t + d, sym)
      /\ ~Readable(cache, last.t + CACHE_DURATION_MINUTES + 1, sym)

\* the expired row of BTC, overwritten with another price and read back
C28_Witness ==
  /\ last.op = "putget"
  /\ last.args = <<BTC>>
  /\ HadExpiredRow(BTC)
  /\ last.pre[BTC].current_price # ToDecimal(last.prev.price)
  /\ last.ret[BTC].price = ToDecimal(last.prev.price)
  /\ cache[BTC].updated_at = last.t

\* the entry of sym in a mapping is a concrete record
RecordIn(ret, sym) == sym \in DOMAIN ret /\ ret[sym].source # "null"

\* C29: getPrices([s]) gives the upper-cased s the outcome getPrice(s) gives
\* from the same state: absent in both, or a record with the same price and
\* source in both; the two send the same upstream requests and leave the same
\* cache.
C29_EntryPointsAgree ==
  last.op = "agree" =>
    \A sym \in Requested :
      /\ RecordIn(last.twin.ret, sym) <=> HasRecord(sym)
      /\ HasRecord(sym) =>
           /\ last.twin.ret[sym].price = last.ret[sym].price
           /\ last.twin.ret[sym].source = last.ret[sym].source
      /\ last.twin.reqs = last.reqs
      /\ last.twin.cache = cache

\* C25: the portfolio valuation answers 200 whatever getPrices gave. An asset
\* whose symbol has no entry or a null entry in that mapping is valued at its
\* own purchase price and shows a gain/loss of zero; an asset whose symbol has
\* a record with a price is valued at that price, found under the symbol the
\* asset is stored with, which is upper-case.
C25_AbsentPriceTolerated ==
  (valuation.op = "portfolio" /\ valuation.userId # NoUser) =>
    /\ valuation.status = 200
    /\ \A i \in 1..Len(valuation.assets) :
         LET row == valuation.assets[i]
             sym == row.symbol
         IN /\ sym = toUpperCase(sym)
            /\ sym = assets[row.id].symbol
            /\ ~RecordIn(valuation.prices, sym) =>
                 /\ row.currentPrice = row.purchasePrice
                 /\ row.gainLoss = 0
            /\ (RecordIn(valuation.prices, sym) /\ valuation.prices[sym].price > 0) =>
                 row.currentPrice = valuation.prices[sym].price

\* one user holding btc (provider down), FAKEXYZ (no entry) and TSLA (quoted)
C25_Witness ==
  /\ valuation.op = "portfolio"
  /\ valuation.status = 200
  /\ Len(valuation.assets) = 3
  /\ \E i \in 1..3 :
       /\ valuation.assets[i].symbol = BTC
       /\ BTC \in DOMAIN valuation.prices
       /\ ~RecordIn(valuation.prices, BTC)
       /\ valuation.assets[i].currentPrice = valuation.assets[i].purchasePrice
  /\ \E i \in 1..3 :
       /\ valuation.assets[i].symbol = FAKEXYZ
       /\ FAKEXYZ \notin DOMAIN valuation.prices
       /\ valuation.assets[i].gainLoss = 0
  /\ \E i \in 1..3 :
       /\ valuation.assets[i].symbol = TSLA
       /\ valuation.assets[i].currentPrice = StockQuote
       /\ valuation.assets[i].gainLoss # 0

\* the provider gave the request a price for everything it asked
Answered(req) ==
  /\ req.outcome = "ok"
  /\ IF req.provider = "coingecko"
       THEN \A k \in 1..Len(req.ids) :
              /\ req.ids[k] \in DOMAIN req.answer
              /\ req.answer[req.ids[k]].usd # Undefined
       ELSE req.answer.regularMarketPrice > 0

\* the run of the latest call met no failure: the assets table was read, every
\* provider request was answered, every write to the cache was taken
HealthyRun ==
  /\ last.write
  /\ \A i \in 1..Len(last.db) : last.db[i].kind = "asset.findMany" => last.db[i].ok
  /\ \A i \in 1..Len(last.reqs) : Answered(last.reqs[i])

\* C26: updateAllAssetPrices never raises; after a run in which the assets
\* table was read, the providers answered and the cache took the writes, every
\* distinct asset symbol classified Crypto or Equity has a row in the cache
\* that is not expired. The asset symbols are those the call read
\* (last.args).
C26_RefreshCoversAssets ==
  last.op = "updateAllAssetPrices" =>
    /\ ~last.exc
    /\ HealthyRun =>
         \A sym \in Requested :
           Classified(sym) =>
             /\ sym \in DOMAIN cache
             /\ last.t - cache[sym].updated_at <= CACHE_DURATION_MINUTES

\* assets of BTC, TSLA and FAKEXYZ, all rows absent or expired before the run
C26_Witness ==
  /\ last.op = "updateAllAssetPrices"
  /\ HealthyRun
  /\ {assets[id].symbol : id \in DOMAIN assets} = {BTC, TSLA, FAKEXYZ}
  /\ Requested = {BTC, TSLA, FAKEXYZ}
  /\ HadExpiredRow(BTC)
  /\ Len(last.reqs) = 2
  /\ cache[BTC].updated_at = last.t
  /\ cache[TSLA].updated_at = last.t
  /\ FAKEXYZ \notin DOMAIN cache

====
